---- MODULE Spec2Model ----
(***************************************************************************)
(* The layers-based compositor of src/components/main/compositing/mod.rs:  *)
(* the state captured by the closures of CompositorTask::run_main_loop,    *)
(* the message dispatcher check_for_messages, the window callbacks         *)
(* (scroll, zoom, resize, mouse, navigation, load-url), ask_for_tiles and  *)
(* the main event loop.                                                    *)
(*                                                                         *)
(* f32 values are modelled as exact rationals <<n, d>> (d > 0, lowest      *)
(* terms); lengths are in pixels, time is in units of the loop's 100 ms    *)
(* timer sleep.  The quadtree (compositing/quadtree.rs) is modelled from   *)
(* its documented contract.                                                *)
(***************************************************************************)
EXTENDS Integers, Sequences, FiniteSets, TLC

VARIABLES
    pc,             \* position of the task in run_main_loop
    done,           \* *done
    recomposite,    \* *recomposite
    world_offset,   \* *world_offset, <<x, y>>
    page_size,      \* *page_size, <<w, h>>
    window_size,    \* *window_size, <<w, h>>
    window_actual,  \* what window.size() returns
    world_zoom,     \* *world_zoom, a rational
    local_zoom,     \* *local_zoom, a rational
    render_chan,    \* *render_chan, None or a channel
    pipeline_id,    \* *pipeline_id, None or an id
    layout_chan,    \* the layout channel the window callbacks are bound to
    quadtree,       \* *quadtree, None or a quadtree
    zoom_action,    \* *zoom_action
    zoom_age,       \* precise_time_s() - *zoom_time, saturated
    children,       \* the texture layers of root_layer, first child first
    root_transform, \* root_layer.common.transform
    sent,           \* what the last step sent on the outbound channels
    last,           \* the message or event the last step handled
    since_zoom,     \* time since the most recent zoom event (-1: none yet), saturated
    rerenders,      \* ReRender messages sent since the last viewport change
    timer_asks,     \* timer-driven ask_for_tiles since the last zoom event
    shutdowns,      \* signals sent on shutdown_chan
    handled,        \* messages and window events handled so far
    fresh,          \* origins of the buffers that accepted Paints delivered at
                    \* the current world_zoom since the last NewLayer
    paint_zoom      \* world_zoom when the most recent Paint was accepted

vars == <<pc, done, recomposite, world_offset, page_size, window_size,
          window_actual, world_zoom, local_zoom, render_chan, pipeline_id,
          layout_chan, quadtree, zoom_action, zoom_age, children,
          root_transform, sent, last, since_zoom, rerenders, timer_asks,
          shutdowns, handled, fresh, paint_zoom>>

\* Option values: None, or Some(v) holding v.
None == <<>>

Some(v) == <<v>>

Get(o) == o[1]

(***************************************************************************)
(* Bounds of the model and the inputs the environment chooses from.        *)
(***************************************************************************)

\* The messages and window events of a run; the loop itself runs on.
MaxEvents == 5

\* rerenders saturates here.
MaxCount == 2

\* The 0.3 s of the zoom-settled check, in 100 ms sleeps.
ZoomSettle == 3

\* tile_size of NewLayer.
TileSize == 2

\* The pipeline ids a Paint may carry, and the one SetLayoutRenderChans registers.
Pipelines == {7, 8}

RegisteredPipelines == {7}

PageSizes == {<<3, 2>>, <<5, 2>>}

WindowSizes == {<<2, 2>>, <<3, 2>>}

InitialWindow == <<2, 2>>

Deltas == {<<-3, -1>>, <<2, 1>>}

Magnifications == {<<-1, 1>>, <<0, 1>>, <<1, 2>>, <<3, 2>>}

SleepTicks == {1, 2}

(***************************************************************************)
(* Exact rational arithmetic standing for f32.                             *)
(***************************************************************************)

Abs(i) == IF i < 0 THEN -i ELSE i

RECURSIVE GCD(_, _)
GCD(a, b) == IF b = 0 THEN a ELSE GCD(b, a % b)

Norm(n, d) ==
    LET g == GCD(Abs(n), Abs(d))
        s == IF d < 0 THEN -1 ELSE 1
    IN <<(s * n) \div g, (s * d) \div g>>

R(i) == <<i, 1>>
RMul(a, b) == Norm(a[1] * b[1], a[2] * b[2])
RDiv(a, b) == Norm(a[1] * b[2], a[2] * b[1])
RAdd(a, b) == Norm(a[1] * b[2] + b[1] * a[2], a[2] * b[2])
RSub(a, b) == Norm(a[1] * b[2] - b[1] * a[2], a[2] * b[2])
RLe(a, b) == a[1] * b[2] <= b[1] * a[2]
RLt(a, b) == a[1] * b[2] < b[1] * a[2]
RMax(a, b) == IF RLe(b, a) THEN a ELSE b
RIsInt(a) == a[2] = 1

\* f32::clamp: the upper bound is tested first.
RClamp(a, mn, mx) ==
    IF ~RLe(a, mx) THEN mx ELSE IF ~RLe(mn, a) THEN mn ELSE a

\* f32::round: to the nearest integer, halves away from zero.
RRound(a) ==
    IF a[1] >= 0 THEN (2 * a[1] + a[2]) \div (2 * a[2])
    ELSE -((2 * (-a[1]) + a[2]) \div (2 * a[2]))

\* `as int`: truncation toward zero.
RTrunc(a) ==
    IF a[1] >= 0 THEN a[1] \div a[2] ELSE -((-a[1]) \div a[2])

Min(a, b) == IF a <= b THEN a ELSE b

(***************************************************************************)
(* Layer buffers.  screen_pos.origin is <<x, y>>, screen_pos.size is       *)
(* tile-sized, rect.origin is <<rx, ry>>, resolution is a rational.        *)
(***************************************************************************)

LayerBuffer(bx, by, r) ==
    [x |-> bx, y |-> by, resolution |-> r,
     rx |-> RTrunc(RDiv(R(bx), r)), ry |-> RTrunc(RDiv(R(by), r)),
     w |-> TileSize, h |-> TileSize]

\* The buffer sets a Paint may carry: one tile, two tiles, two buffers of
\* different resolutions for one origin, one tile rendered at zoom 1.5, and
\* the four tiles of a viewport rendered at zoom 1.5.
BufferSets ==
    { <<LayerBuffer(0, 0, R(1))>>,
      <<LayerBuffer(0, 0, R(1)), LayerBuffer(2, 0, R(1))>>,
      <<LayerBuffer(2, 0, R(1)), LayerBuffer(2, 0, <<3, 2>>)>>,
      <<LayerBuffer(0, 0, <<3, 2>>)>>,
      <<LayerBuffer(0, 0, <<3, 2>>), LayerBuffer(2, 0, <<3, 2>>),
        LayerBuffer(0, 2, <<3, 2>>), LayerBuffer(2, 2, <<3, 2>>)>> }

(***************************************************************************)
(* The quadtree: a cache of tiles over the page, one slot per              *)
(* (x, y, resolution).                                                     *)
(***************************************************************************)

Rect(rx, ry, rw, rh) == [x |-> rx, y |-> ry, w |-> rw, h |-> rh]

QuadtreeNew(qx, qy, width, height, tile_size) ==
    [x |-> qx, y |-> qy, width |-> width, height |-> height,
     tile_size |-> tile_size, tiles |-> {}]

add_tile(quad, tx, ty, resolution, tile) ==
    [quad EXCEPT !.tiles =
        { t \in @ : ~(t.x = tx /\ t.y = ty /\ t.resolution = resolution) }
        \cup { [x |-> tx, y |-> ty, resolution |-> resolution, tile |-> tile] }]

\* Slots in iteration order: by row, then column, then resolution.
SlotBefore(a, b) ==
    \/ a.y < b.y
    \/ a.y = b.y /\ a.x < b.x
    \/ a.y = b.y /\ a.x = b.x /\ RLt(a.resolution, b.resolution)

RECURSIVE SlotSeq(_)
SlotSeq(S) ==
    IF S = {} THEN <<>>
    ELSE LET m == CHOOSE a \in S : \A b \in S \ {a} : SlotBefore(a, b)
         IN <<m>> \o SlotSeq(S \ {m})

get_all_tiles(quad) ==
    LET slots == SlotSeq(quad.tiles)
    IN [i \in 1..Len(slots) |-> slots[i].tile]

\* The tile-sized cells, aligned to the page origin, that meet both the
\* viewport and the page as it is at `zoom`.
PageCells(quad, viewport, zoom) ==
    LET ts == quad.tile_size
        InX(c) == /\ c < viewport.x + viewport.w
                  /\ c + ts > viewport.x
                  /\ RLt(R(c), RMul(R(quad.width), zoom))
        InY(c) == /\ c < viewport.y + viewport.h
                  /\ c + ts > viewport.y
                  /\ RLt(R(c), RMul(R(quad.height), zoom))
        Xs == { quad.x + ts * i : i \in 0..((viewport.x + viewport.w) \div ts) }
        Ys == { quad.y + ts * j : j \in 0..((viewport.y + viewport.h) \div ts) }
    IN { <<cx, cy>> : cx \in { c \in Xs : InX(c) }, cy \in { c \in Ys : InY(c) } }

CellBefore(a, b) == a[2] < b[2] \/ (a[2] = b[2] /\ a[1] < b[1])

RECURSIVE CellSeq(_)
CellSeq(S) ==
    IF S = {} THEN <<>>
    ELSE LET m == CHOOSE a \in S : \A b \in S \ {a} : CellBefore(a, b)
         IN <<m>> \o CellSeq(S \ {m})

\* The predicate ask_for_tiles, the one caller, hands to get_tile_rects.
valid(tile) == tile.resolution = world_zoom

\* (missing, redisplay): the cells of the viewport with no tile that passes
\* `valid`, top to bottom and left to right, and whether the viewport meets a
\* cached tile that fails it.
get_tile_rects(quad, viewport, zoom) ==
    LET ts == quad.tile_size
        Covered(c) == \E t \in quad.tiles :
                          /\ t.x = c[1] /\ t.y = c[2] /\ t.resolution = zoom
                          /\ valid(t.tile)
        Stale(c) == \E t \in quad.tiles :
                          /\ t.x = c[1] /\ t.y = c[2]
                          /\ ~valid(t.tile)
        cells == PageCells(quad, viewport, zoom)
        need == CellSeq({ c \in cells : ~Covered(c) })
    IN [missing |-> [i \in 1..Len(need) |-> Rect(need[i][1], need[i][2], ts, ts)],
        redisplay |-> \E c \in cells : Stale(c)]

(***************************************************************************)
(* Outbound messages and the record of the last step.                      *)
(***************************************************************************)

\* A message is <<channel, kind, receiver, payload>>.
Msg(chan, to, kind, payload) == <<chan, kind, to, payload>>

MsgChan(m) == m[1]

MsgKind(m) == m[2]

MsgPayload(m) == m[4]

ReRenderMsg(to, tile_request, zoom) ==
    Msg("render", to, "ReRenderMsg", <<tile_request, zoom>>)

Handled(kind, param, tiles_ask) ==
    [kind |-> kind, param |-> param, tiles_ask |-> tiles_ask]

NumReRender(out) == Cardinality({ i \in 1..Len(out) : MsgKind(out[i]) = "ReRenderMsg" })

\* The steps of the loop that handle no message and no window event.
LoopSteps == {"DrainDone", "PumpDone", "Composite", "Sleep", "ZoomCheck", "LoopTest"}

\* The bookkeeping every step ends with: the events handled, and the ReRender
\* messages sent since the viewport last changed.
Track(isNewLayer) ==
    /\ handled' = IF last'.kind \in LoopSteps THEN handled ELSE handled + 1
    /\ rerenders' =
          IF \/ world_offset' # world_offset
             \/ world_zoom' # world_zoom
             \/ window_size' # window_size
             \/ isNewLayer
          THEN Min(NumReRender(sent'), MaxCount)
          ELSE Min(rerenders + NumReRender(sent'), MaxCount)

(***************************************************************************)
(* ask_for_tiles, as a function of the quadtree it finds: whether the task *)
(* fails, and what is sent.                                                *)
(***************************************************************************)

tile_request(quad) ==
    get_tile_rects(quad,
                   Rect(world_offset[1], world_offset[2],
                        window_size[1], window_size[2]),
                   world_zoom)

\* ask_for_tiles failing when no render channel is registered.
ask_for_tiles_NeedsChan(quad) ==
    IF quad = None \/ render_chan = None
    THEN [fail |-> TRUE, out |-> <<>>]
    ELSE LET req == tile_request(Get(quad))
         IN IF req.missing # <<>>
            THEN [fail |-> FALSE,
                  out |-> <<ReRenderMsg(Get(render_chan), req.missing, world_zoom)>>]
            ELSE [fail |-> FALSE, out |-> <<>>]

ask_for_tiles(quad) ==
    IF quad = None
    THEN [fail |-> TRUE, out |-> <<>>]
    ELSE LET req == tile_request(Get(quad))
         IN IF req.missing # <<>>
            THEN IF render_chan # None
                 THEN [fail |-> FALSE,
                       out |-> <<ReRenderMsg(Get(render_chan), req.missing, world_zoom)>>]
                 ELSE [fail |-> FALSE, out |-> <<>>]
            ELSE [fail |-> FALSE, out |-> <<>>]

(***************************************************************************)
(* Transforms.  A root transform translate(a, b) . scale(s) .              *)
(* translate(c, d) maps p to s * (p + <<c, d>>) + <<a, b>>.                *)
(***************************************************************************)

Transform(s, tx, ty) == [s |-> s, tx |-> tx, ty |-> ty]

Identity == Transform(R(1), R(0), R(0))

\* translate(w/2 * local_zoom - offset.x, h/2 * local_zoom - offset.y)
\*   . scale(local_zoom) . translate(w / -2, h / -2)
ViewTransform(size, lz, offset) ==
    LET a == RSub(RMul(RDiv(R(size[1]), R(2)), lz), R(offset[1]))
        b == RSub(RMul(RDiv(R(size[2]), R(2)), lz), R(offset[2]))
        c == RDiv(R(size[1]), R(-2))
        d == RDiv(R(size[2]), R(-2))
    IN Transform(lz, RAdd(RMul(lz, c), a), RAdd(RMul(lz, d), b))

\* identity().translate(origin * zoom).scale(size * zoom / resolution)
TileTransform(buffer, zoom) ==
    [tx |-> RMul(R(buffer.rx), zoom), ty |-> RMul(R(buffer.ry), zoom),
     sx |-> RDiv(RMul(R(buffer.w), zoom), buffer.resolution),
     sy |-> RDiv(RMul(R(buffer.h), zoom), buffer.resolution)]

TextureLayer(buffer, zoom) ==
    [manager |-> buffer, transform |-> TileTransform(buffer, zoom)]

RemoveAt(seq, i) == SubSeq(seq, 1, i - 1) \o SubSeq(seq, i + 1, Len(seq))

\* The walk over the tiles: `cur` is current_layer_child as an index into the
\* children, 0 for None.
RECURSIVE Rebind(_, _, _, _, _)
Rebind(kids, cur, tiles, i, zoom) ==
    IF i > Len(tiles) THEN [kids |-> kids, cur |-> cur]
    ELSE IF cur = 0
         THEN Rebind(Append(kids, TextureLayer(tiles[i], zoom)), 0, tiles, i + 1, zoom)
         ELSE Rebind([kids EXCEPT ![cur] = TextureLayer(tiles[i], zoom)],
                     IF cur < Len(kids) THEN cur + 1 ELSE 0, tiles, i + 1, zoom)

\* The deletion left out.
RemoveLeftover_Kept(kids, cur) == kids

\* The loop that deletes the leftover layers.
RECURSIVE RemoveLeftover(_, _)
RemoveLeftover(kids, cur) ==
    IF cur = 0 \/ cur > Len(kids) THEN kids
    ELSE RemoveLeftover(RemoveAt(kids, cur), cur)

Reconcile(kids, tiles, zoom) ==
    LET walked == Rebind(kids, IF kids = <<>> THEN 0 ELSE 1, tiles, 1, zoom)
    IN RemoveLeftover(walked.kids, walked.cur)

RECURSIVE AddTiles(_, _, _, _)
AddTiles(quad, buffers, i, zoom) ==
    IF i > Len(buffers) THEN quad
    ELSE AddTiles(add_tile(quad, buffers[i].x, buffers[i].y, zoom, buffers[i]),
                  buffers, i + 1, zoom)

(***************************************************************************)
(* The state after the set-up of run_main_loop, before the loop's first    *)
(* test.                                                                   *)
(***************************************************************************)

Saturated == ZoomSettle + 1

Init ==
    /\ pc = "test"
    /\ done = FALSE
    /\ recomposite = FALSE
    /\ world_offset = <<0, 0>>
    /\ page_size = <<0, 0>>
    /\ window_size = InitialWindow
    /\ window_actual = InitialWindow
    /\ world_zoom = R(1)
    /\ local_zoom = R(1)
    /\ render_chan = None
    /\ pipeline_id = None
    /\ layout_chan = None
    /\ quadtree = None
    /\ zoom_action = FALSE
    /\ zoom_age = Saturated
    /\ children = <<>>
    /\ root_transform = Identity
    /\ sent = <<>>
    /\ last = Handled("Init", <<>>, "none")
    /\ since_zoom = -1
    /\ rerenders = 0
    /\ timer_asks = 0
    /\ shutdowns = 0
    /\ handled = 0
    /\ fresh = {}
    /\ paint_zoom = R(1)

(***************************************************************************)
(* check_for_messages: one action per message received while port.peek().  *)
(***************************************************************************)

Exit ==
    /\ pc = "drain"
    /\ handled < MaxEvents
    /\ done' = TRUE
    /\ sent' = <<>>
    /\ last' = Handled("Exit", <<>>, "none")
    /\ UNCHANGED <<pc, recomposite, world_offset, page_size, window_size,
                   window_actual, world_zoom, local_zoom, render_chan,
                   pipeline_id, layout_chan, quadtree, zoom_action, zoom_age,
                   children, root_transform, since_zoom, timer_asks, shutdowns, fresh,
                   paint_zoom>>
    /\ Track(FALSE)

\* window.set_ready_state / window.set_render_state: no compositor state.
ChangeState(kind) ==
    /\ pc = "drain"
    /\ handled < MaxEvents
    /\ sent' = <<>>
    /\ last' = Handled(kind, <<>>, "none")
    /\ UNCHANGED <<pc, done, recomposite, world_offset, page_size, window_size,
                   window_actual, world_zoom, local_zoom, render_chan,
                   pipeline_id, layout_chan, quadtree, zoom_action, zoom_age,
                   children, root_transform, since_zoom, timer_asks, shutdowns, fresh,
                   paint_zoom>>
    /\ Track(FALSE)

ChangeReadyState == ChangeState("ChangeReadyState")

ChangeRenderState == ChangeState("ChangeRenderState")

\* The channels of pipeline p.
LayoutChan(p) == <<"LayoutChan", p>>

RenderChan(p) == <<"RenderChan", p>>

\* The reply sent before the pipeline id is registered.
SetLayoutRenderChans_AckFirst(new_layout_chan, new_render_chan, new_pipeline_id) ==
    /\ pc = "drain"
    /\ handled < MaxEvents
    /\ layout_chan' = Some(new_layout_chan)
    /\ render_chan' = Some(new_render_chan)
    /\ sent' = <<Msg("constellation", new_pipeline_id, "CompositorAck", new_pipeline_id)>>
    /\ last' = Handled("SetLayoutRenderChans",
                       <<new_layout_chan, new_render_chan, new_pipeline_id,
                         "response_chan">>, "none")
    /\ UNCHANGED <<pc, done, recomposite, world_offset, page_size, window_size,
                   window_actual, world_zoom, local_zoom, quadtree, zoom_action,
                   zoom_age, children, root_transform, since_zoom, timer_asks,
                   shutdowns, fresh, paint_zoom, pipeline_id, rerenders>>
    /\ handled' = handled + 1

SetLayoutRenderChans(new_layout_chan, new_render_chan, new_pipeline_id) ==
    /\ pc = "drain"
    /\ handled < MaxEvents
    /\ layout_chan' = Some(new_layout_chan)
    /\ render_chan' = Some(new_render_chan)
    /\ pipeline_id' = Some(new_pipeline_id)
    /\ sent' = <<Msg("constellation", new_pipeline_id, "CompositorAck", new_pipeline_id)>>
    /\ last' = Handled("SetLayoutRenderChans",
                       <<new_layout_chan, new_render_chan, new_pipeline_id,
                         "response_chan">>, "none")
    /\ UNCHANGED <<pc, done, recomposite, world_offset, page_size, window_size,
                   window_actual, world_zoom, local_zoom, quadtree, zoom_action,
                   zoom_age, children, root_transform, since_zoom, timer_asks,
                   shutdowns, fresh,
                   paint_zoom>>
    /\ Track(FALSE)

GetSize ==
    /\ pc = "drain"
    /\ handled < MaxEvents
    /\ sent' = <<Msg("reply", "GetSize", "Size2D", window_actual)>>
    /\ last' = Handled("GetSize", <<>>, "none")
    /\ UNCHANGED <<pc, done, recomposite, world_offset, page_size, window_size,
                   window_actual, world_zoom, local_zoom, render_chan,
                   pipeline_id, layout_chan, quadtree, zoom_action, zoom_age,
                   children, root_transform, since_zoom, timer_asks, shutdowns, fresh,
                   paint_zoom>>
    /\ Track(FALSE)

GetGLContext ==
    /\ pc = "drain"
    /\ handled < MaxEvents
    /\ sent' = <<Msg("reply", "GetGLContext", "AzGLContext", <<>>)>>
    /\ last' = Handled("GetGLContext", <<>>, "none")
    /\ UNCHANGED <<pc, done, recomposite, world_offset, page_size, window_size,
                   window_actual, world_zoom, local_zoom, render_chan,
                   pipeline_id, layout_chan, quadtree, zoom_action, zoom_age,
                   children, root_transform, since_zoom, timer_asks, shutdowns, fresh,
                   paint_zoom>>
    /\ Track(FALSE)

NewLayer(new_size, tile_size) ==
    /\ pc = "drain"
    /\ handled < MaxEvents
    /\ page_size' = new_size
    /\ quadtree' = Some(QuadtreeNew(0, 0, new_size[1], new_size[2], tile_size))
    /\ pc' = IF ask_for_tiles(quadtree').fail THEN "failed" ELSE pc
    /\ sent' = ask_for_tiles(quadtree').out
    /\ last' = Handled("NewLayer", <<>>, "NewLayer")
    /\ UNCHANGED <<done, recomposite, world_offset, window_size,
                   window_actual, world_zoom, local_zoom, render_chan,
                   pipeline_id, layout_chan, zoom_action, zoom_age, children,
                   root_transform, since_zoom, timer_asks, shutdowns>>
    /\ fresh' = {}
    /\ UNCHANGED paint_zoom
    /\ Track(TRUE)

ResizeLayer(new_size) ==
    /\ pc = "drain"
    /\ handled < MaxEvents
    /\ page_size' = new_size
    /\ sent' = <<>>
    /\ last' = Handled("ResizeLayer", <<>>, "none")
    /\ UNCHANGED <<pc, done, recomposite, world_offset, window_size,
                   window_actual, world_zoom, local_zoom, render_chan,
                   pipeline_id, layout_chan, quadtree, zoom_action, zoom_age,
                   children, root_transform, since_zoom, timer_asks, shutdowns, fresh,
                   paint_zoom>>
    /\ Track(FALSE)

DeleteLayer ==
    /\ pc = "drain"
    /\ handled < MaxEvents
    /\ sent' = <<>>
    /\ last' = Handled("DeleteLayer", <<>>, "none")
    /\ UNCHANGED <<pc, done, recomposite, world_offset, page_size, window_size,
                   window_actual, world_zoom, local_zoom, render_chan,
                   pipeline_id, layout_chan, quadtree, zoom_action, zoom_age,
                   children, root_transform, since_zoom, timer_asks, shutdowns, fresh,
                   paint_zoom>>
    /\ Track(FALSE)

\* The reset left out: local_zoom keeps its value.
PaintLocalZoom_Kept == local_zoom

\* "Reset zoom": *local_zoom = 1f32
PaintLocalZoom == R(1)

\* The gate without the id test: any Paint passes once a pipeline is registered.
PaintSkipped_AnyId(id) == pipeline_id = None

\* A gate that skips every Paint.
PaintSkipped_Always(id) == TRUE

\* The pipeline gate of Paint: TRUE when the message is skipped.
PaintSkipped(id) == IF pipeline_id # None THEN id # Get(pipeline_id) ELSE TRUE

\* Every buffer of the set was rendered at the current world_zoom.
AtWorldZoom(buffers) ==
    \A i \in 1..Len(buffers) : buffers[i].resolution = world_zoom

\* screen_pos.origin of the buffers of a set.
Origins(buffers) == { <<buffers[i].x, buffers[i].y>> : i \in 1..Len(buffers) }

Paint(id, new_layer_buffer_set, new_size) ==
    /\ pc = "drain"
    /\ handled < MaxEvents
    /\ sent' = <<>>
    /\ last' = Handled("Paint", <<id, new_layer_buffer_set, Len(children)>>, "none")
    /\ IF PaintSkipped(id)
       THEN UNCHANGED <<pc, page_size, quadtree, children, local_zoom,
                        root_transform, recomposite, fresh, paint_zoom>>
       ELSE IF quadtree = None
       THEN /\ pc' = "failed"
            /\ UNCHANGED <<page_size, quadtree, children, local_zoom,
                           root_transform, recomposite, fresh,
                           paint_zoom>>
       ELSE /\ pc' = pc
            /\ page_size' = new_size
            /\ quadtree' = Some(AddTiles(Get(quadtree), new_layer_buffer_set, 1, world_zoom))
            /\ children' = Reconcile(children, get_all_tiles(Get(quadtree')), world_zoom)
            /\ local_zoom' = PaintLocalZoom
            /\ root_transform' = Transform(R(1), R(-world_offset[1]), R(-world_offset[2]))
            /\ recomposite' = TRUE
            /\ fresh' = IF AtWorldZoom(new_layer_buffer_set)
                        THEN fresh \cup Origins(new_layer_buffer_set)
                        ELSE fresh
            /\ paint_zoom' = world_zoom
    /\ UNCHANGED <<done, world_offset, window_size, window_actual, world_zoom,
                   render_chan, pipeline_id, layout_chan, zoom_action, zoom_age,
                   since_zoom, timer_asks, shutdowns>>
    /\ Track(FALSE)

\* port.peek() is false: check_for_messages returns.
DrainDone ==
    /\ pc = "drain"
    /\ pc' = "pump"
    /\ sent' = <<>>
    /\ last' = Handled("DrainDone", <<>>, "none")
    /\ UNCHANGED <<done, recomposite, world_offset, page_size, window_size,
                   window_actual, world_zoom, local_zoom, render_chan,
                   pipeline_id, layout_chan, quadtree, zoom_action, zoom_age,
                   children, root_transform, since_zoom, timer_asks, shutdowns, fresh,
                   paint_zoom>>
    /\ Track(FALSE)

(***************************************************************************)
(* window.check_loop(): one action per callback the window invokes.  The   *)
(* scroll and zoom callbacks are set at loop entry; the navigation,        *)
(* resize, load-url and mouse callbacks by update_layout_callbacks.        *)
(***************************************************************************)

\* (page * world_zoom - window).max(0), then clamp and round.
ClampOffset(offset, page, zoom, window) ==
    LET max == RMax(RSub(RMul(R(page), zoom), R(window)), R(0))
    IN RRound(RClamp(offset, R(0), max))

\* The scroll callback with its ask_for_tiles() call left in.
Scroll_Asking(delta) ==
    /\ pc = "pump"
    /\ handled < MaxEvents
    /\ world_offset' =
          <<ClampOffset(RSub(R(world_offset[1]), R(delta[1])),
                        page_size[1], world_zoom, window_size[1]),
            ClampOffset(RSub(R(world_offset[2]), R(delta[2])),
                        page_size[2], world_zoom, window_size[2])>>
    /\ root_transform' = ViewTransform(window_size, local_zoom, world_offset')
    /\ recomposite' = TRUE
    /\ sent' = IF quadtree = None THEN <<>> ELSE ask_for_tiles(quadtree).out
    /\ last' = Handled("Scroll", delta, "none")
    /\ UNCHANGED <<pc, done, page_size, window_size, window_actual, world_zoom,
                   local_zoom, render_chan, pipeline_id, layout_chan, quadtree,
                   zoom_action, zoom_age, children, since_zoom, timer_asks,
                   shutdowns, fresh,
                   paint_zoom>>
    /\ Track(FALSE)

Scroll(delta) ==
    /\ pc = "pump"
    /\ handled < MaxEvents
    /\ world_offset' =
          <<ClampOffset(RSub(R(world_offset[1]), R(delta[1])),
                        page_size[1], world_zoom, window_size[1]),
            ClampOffset(RSub(R(world_offset[2]), R(delta[2])),
                        page_size[2], world_zoom, window_size[2])>>
    /\ root_transform' = ViewTransform(window_size, local_zoom, world_offset')
    /\ recomposite' = TRUE
    /\ sent' = <<>>
    /\ last' = Handled("Scroll", delta, "none")
    /\ UNCHANGED <<pc, done, page_size, window_size, window_actual, world_zoom,
                   local_zoom, render_chan, pipeline_id, layout_chan, quadtree,
                   zoom_action, zoom_age, children, since_zoom, timer_asks,
                   shutdowns, fresh,
                   paint_zoom>>
    /\ Track(FALSE)

\* world_offset + corner_to_center * world_zoom / old_world_zoom - corner_to_center
\* The offset scaled about the window's corner instead of its centre.
ZoomOffset_Corner(offset, window, new_zoom, old_zoom) ==
    RDiv(RMul(R(offset), new_zoom), old_zoom)

ZoomOffset(offset, window, new_zoom, old_zoom) ==
    LET corner_to_center == RAdd(R(offset), RDiv(R(window), R(2)))
        new_corner_to_center == RDiv(RMul(corner_to_center, new_zoom), old_zoom)
    IN RSub(RAdd(R(offset), new_corner_to_center), corner_to_center)

\* The zoom without its lower limit.
NewWorldZoom_Unlimited(zoom, magnification) == RMul(zoom, magnification)

NewWorldZoom(zoom, magnification) == RMax(RMul(zoom, magnification), R(1))

\* A local zoom that is multiplied by the new world zoom only.
ZoomLocalZoom_Undivided(zoom, new_zoom, old_zoom) == RMul(zoom, new_zoom)

\* *local_zoom = *local_zoom * *world_zoom/old_world_zoom
ZoomLocalZoom(zoom, new_zoom, old_zoom) == RDiv(RMul(zoom, new_zoom), old_zoom)

Zoom(magnification) ==
    /\ pc = "pump"
    /\ handled < MaxEvents
    /\ zoom_action' = TRUE
    /\ zoom_age' = 0
    /\ world_zoom' = NewWorldZoom(world_zoom, magnification)
    /\ local_zoom' = ZoomLocalZoom(local_zoom, world_zoom', world_zoom)
    /\ world_offset' =
          <<ClampOffset(ZoomOffset(world_offset[1], window_size[1], world_zoom', world_zoom),
                        page_size[1], world_zoom', window_size[1]),
            ClampOffset(ZoomOffset(world_offset[2], window_size[2], world_zoom', world_zoom),
                        page_size[2], world_zoom', window_size[2])>>
    /\ root_transform' = ViewTransform(window_size, local_zoom', world_offset')
    /\ recomposite' = TRUE
    /\ sent' = <<>>
    /\ last' = Handled("Zoom", magnification, "none")
    /\ since_zoom' = 0
    /\ timer_asks' = 0
    /\ fresh' = IF world_zoom' = world_zoom THEN fresh ELSE {}
    /\ UNCHANGED paint_zoom
    /\ UNCHANGED <<pc, done, page_size, window_size, window_actual, render_chan,
                   pipeline_id, layout_chan, quadtree, children, shutdowns>>
    /\ Track(FALSE)

\* The window takes a new size and calls the resize callback, if one is set.
\* A resize callback that never drops a report.
SizeChanged_Always(new_size) == TRUE

\* `*window_size != new_size` of the resize callback.
SizeChanged(new_size) == window_size # new_size

Resize(width, height) ==
    /\ pc = "pump"
    /\ handled < MaxEvents
    /\ window_actual' = <<width, height>>
    /\ IF layout_chan # None /\ SizeChanged(<<width, height>>)
       THEN /\ window_size' = <<width, height>>
            /\ sent' = <<Msg("layout", Get(layout_chan), "SendEventMsg",
                             <<"ResizeEvent", <<width, height>>>>)>>
       ELSE /\ sent' = <<>>
            /\ UNCHANGED window_size
    /\ last' = Handled("Resize", <<width, height>>, "none")
    /\ UNCHANGED <<pc, done, recomposite, world_offset, page_size, world_zoom,
                   local_zoom, render_chan, pipeline_id, layout_chan, quadtree,
                   zoom_action, zoom_age, children, root_transform, since_zoom,
                   timer_asks, shutdowns, fresh,
                   paint_zoom>>
    /\ Track(FALSE)

MouseEvents == {"ClickEvent", "MouseDownEvent", "MouseUpEvent"}

MousePoints == {<<1, 1>>}

Mouse(kind, layer_mouse_point) ==
    /\ pc = "pump"
    /\ handled < MaxEvents
    /\ layout_chan # None
    /\ LET asked == IF kind = "MouseUpEvent"
                    THEN ask_for_tiles(quadtree)
                    ELSE [fail |-> FALSE, out |-> <<>>]
           world_mouse_point == <<layer_mouse_point[1] + world_offset[1],
                                  layer_mouse_point[2] + world_offset[2]>>
       IN IF asked.fail
          THEN /\ pc' = "failed"
               /\ sent' = <<>>
          ELSE /\ pc' = pc
               /\ sent' = asked.out \o
                          <<Msg("layout", Get(layout_chan), "SendEventMsg",
                                <<kind, world_mouse_point>>)>>
    /\ last' = Handled("Mouse", <<kind>>,
                       IF kind = "MouseUpEvent" THEN "MouseUp" ELSE "none")
    /\ UNCHANGED <<done, recomposite, world_offset, page_size, window_size,
                   window_actual, world_zoom, local_zoom, render_chan,
                   pipeline_id, layout_chan, quadtree, zoom_action, zoom_age,
                   children, root_transform, since_zoom, timer_asks, shutdowns, fresh,
                   paint_zoom>>
    /\ Track(FALSE)

Directions == {"Forward", "Back"}

Navigate(direction) ==
    /\ pc = "pump"
    /\ handled < MaxEvents
    /\ layout_chan # None
    /\ sent' = <<Msg("layout", Get(layout_chan), "NavigateMsg", direction)>>
    /\ last' = Handled("Navigate", <<>>, "none")
    /\ UNCHANGED <<pc, done, recomposite, world_offset, page_size, window_size,
                   window_actual, world_zoom, local_zoom, render_chan,
                   pipeline_id, layout_chan, quadtree, zoom_action, zoom_age,
                   children, root_transform, since_zoom, timer_asks, shutdowns, fresh,
                   paint_zoom>>
    /\ Track(FALSE)

LoadUrl ==
    /\ pc = "pump"
    /\ handled < MaxEvents
    /\ layout_chan # None
    /\ sent' = <<Msg("layout", Get(layout_chan), "LoadMsg", "url")>>
    /\ last' = Handled("LoadUrl", <<>>, "none")
    /\ UNCHANGED <<pc, done, recomposite, world_offset, page_size, window_size,
                   window_actual, world_zoom, local_zoom, render_chan,
                   pipeline_id, layout_chan, quadtree, zoom_action, zoom_age,
                   children, root_transform, since_zoom, timer_asks, shutdowns, fresh,
                   paint_zoom>>
    /\ Track(FALSE)

\* window.check_loop() returns.
PumpDone ==
    /\ pc = "pump"
    /\ pc' = "composite"
    /\ sent' = <<>>
    /\ last' = Handled("PumpDone", <<>>, "none")
    /\ UNCHANGED <<done, recomposite, world_offset, page_size, window_size,
                   window_actual, world_zoom, local_zoom, render_chan,
                   pipeline_id, layout_chan, quadtree, zoom_action, zoom_age,
                   children, root_transform, since_zoom, timer_asks, shutdowns, fresh,
                   paint_zoom>>
    /\ Track(FALSE)

(***************************************************************************)
(* The rest of an iteration of the main event loop.                        *)
(***************************************************************************)

\* if *recomposite { *recomposite = false; composite(); }
Composite ==
    /\ pc = "composite"
    /\ pc' = "sleep"
    /\ recomposite' = FALSE
    /\ sent' = IF recomposite
               THEN <<Msg("window", "window", "present", window_actual)>>
               ELSE <<>>
    /\ last' = Handled("Composite", <<>>, "none")
    /\ UNCHANGED <<done, world_offset, page_size, window_size, window_actual,
                   world_zoom, local_zoom, render_chan, pipeline_id, layout_chan,
                   quadtree, zoom_action, zoom_age, children, root_transform,
                   since_zoom, timer_asks, shutdowns, fresh,
                   paint_zoom>>
    /\ Track(FALSE)

\* timer::sleep(.., 100): at least one tick passes.
Sleep(ticks) ==
    /\ pc = "sleep"
    /\ pc' = "settle"
    /\ zoom_age' = Min(zoom_age + ticks, Saturated)
    /\ since_zoom' = IF since_zoom < 0 THEN since_zoom
                     ELSE Min(since_zoom + ticks, Saturated)
    /\ sent' = <<>>
    /\ last' = Handled("Sleep", <<>>, "none")
    /\ UNCHANGED <<done, recomposite, world_offset, page_size, window_size,
                   window_actual, world_zoom, local_zoom, render_chan,
                   pipeline_id, layout_chan, quadtree, zoom_action, children,
                   root_transform, timer_asks, shutdowns, fresh,
                   paint_zoom>>
    /\ Track(FALSE)

\* The check without the 0.3 s.
ZoomSettled_NoDelay == zoom_action

\* The check that never passes.
ZoomSettled_Never == FALSE

\* *zoom_action && precise_time_s() - *zoom_time > 0.3
ZoomSettled == zoom_action /\ zoom_age > ZoomSettle

ZoomCheck ==
    /\ pc = "settle"
    /\ LET asked == IF ZoomSettled
                    THEN ask_for_tiles(quadtree)
                    ELSE [fail |-> FALSE, out |-> <<>>]
       IN /\ zoom_action' = (zoom_action /\ ~ZoomSettled)
          /\ timer_asks' = IF ZoomSettled
                           THEN Min(timer_asks + 1, MaxCount)
                           ELSE timer_asks
          /\ pc' = IF asked.fail THEN "failed" ELSE "test"
          /\ sent' = asked.out
          /\ last' = Handled("ZoomCheck", <<>>,
                             IF ZoomSettled THEN "Timer" ELSE "none")
          /\ rerenders' = Min(rerenders + NumReRender(asked.out), MaxCount)
    /\ UNCHANGED <<done, recomposite, world_offset, page_size, window_size,
                   window_actual, world_zoom, local_zoom, render_chan,
                   pipeline_id, layout_chan, quadtree, zoom_age, children,
                   root_transform, since_zoom, shutdowns, handled, fresh,
                   paint_zoom>>

\* A loop that never tests *done.
Running_Forever == TRUE

\* The loop's condition: !*done
Running == ~done

\* while !*done { .. }; self.shutdown_chan.send(())
LoopTest ==
    /\ pc = "test"
    /\ IF Running
       THEN /\ pc' = "drain"
            /\ sent' = <<>>
            /\ UNCHANGED shutdowns
       ELSE /\ pc' = "exited"
            /\ sent' = <<Msg("shutdown", "shutdown_chan", "()", <<>>)>>
            /\ shutdowns' = shutdowns + 1
    /\ last' = Handled("LoopTest", <<>>, "none")
    /\ UNCHANGED <<done, recomposite, world_offset, page_size, window_size,
                   window_actual, world_zoom, local_zoom, render_chan,
                   pipeline_id, layout_chan, quadtree, zoom_action, zoom_age,
                   children, root_transform, since_zoom, timer_asks, fresh,
                   paint_zoom>>
    /\ Track(FALSE)

CheckForMessages ==
    \/ Exit
    \/ ChangeReadyState
    \/ ChangeRenderState
    \/ \E p \in RegisteredPipelines :
           SetLayoutRenderChans(LayoutChan(p), RenderChan(p), p)
    \/ GetSize
    \/ GetGLContext
    \/ \E size \in PageSizes : NewLayer(size, TileSize)
    \/ \E size \in PageSizes : ResizeLayer(size)
    \/ DeleteLayer
    \/ \E id \in Pipelines, bufs \in BufferSets, size \in PageSizes : Paint(id, bufs, size)
    \/ DrainDone

CheckLoop ==
    \/ \E delta \in Deltas : Scroll(delta)
    \/ \E m \in Magnifications : Zoom(m)
    \/ \E size \in WindowSizes : Resize(size[1], size[2])
    \/ \E kind \in MouseEvents, point \in MousePoints : Mouse(kind, point)
    \/ \E d \in Directions : Navigate(d)
    \/ LoadUrl
    \/ PumpDone

Next ==
    \/ CheckForMessages
    \/ CheckLoop
    \/ Composite
    \/ \E ticks \in SleepTicks : Sleep(ticks)
    \/ ZoomCheck
    \/ LoopTest

Spec == Init /\ [][Next]_vars

\* The phases of one iteration of the loop, and the two ways the task ends.
Phases == {"test", "drain", "pump", "composite", "sleep", "settle"}

Ended == {"exited", "failed"}

\* The loop leaves phase ph.
Leaves(ph) == pc = ph /\ pc' \in (Phases \cup Ended) \ {ph}

\* The loop goes on: the test of *done is made, check_for_messages returns
\* once the port is empty, window.check_loop(), the composite, the timer
\* sleep and the zoom-settled check return.
Fairness == \A ph \in Phases : WF_pc(Leaves(ph))

FairSpec == Init /\ [][Next]_vars /\ Fairness

(***************************************************************************)
(* The claims.                                                             *)
(***************************************************************************)

\* The last step handled a Paint that passed the pipeline gate and found a
\* quadtree.
AcceptedPaint ==
    /\ last.kind = "Paint"
    /\ pipeline_id # None
    /\ last.param[1] = Get(pipeline_id)
    /\ pc # "failed"

\* The last step handled a Paint that the pipeline gate skipped.
ForeignPaint ==
    /\ last.kind = "Paint"
    /\ (pipeline_id = None \/ last.param[1] # Get(pipeline_id))

\* (page * world_zoom - window).max(0) on axis i, for the current state.
MaxOffset(i) ==
    RMax(RSub(RMul(R(page_size[i]), world_zoom), R(window_size[i])), R(0))

\* C1: right after each scroll handler returns, world_offset lies in
\* [0, max(0, page * world_zoom - window)] on both axes (and is integral:
\* world_offset holds integers).
C1_ScrollWithinBounds ==
    last.kind = "Scroll" =>
        \A i \in 1..2 : /\ world_offset[i] \in Int
                        /\ 0 <= world_offset[i]
                        /\ RLe(R(world_offset[i]), MaxOffset(i))

\* C2: after an accepted Paint, for every buffer b of its buffer set the
\* quadtree's tiles hold a tile with b's screen_pos.origin whose resolution is
\* the world_zoom the Paint was handled at.
C2_PaintedTilesAtWorldZoom ==
    AcceptedPaint =>
        \A i \in 1..Len(last.param[2]) :
            LET b == last.param[2][i]
                tiles == get_all_tiles(Get(quadtree))
            IN \E j \in 1..Len(tiles) :
                   /\ tiles[j].x = b.x
                   /\ tiles[j].y = b.y
                   /\ tiles[j].resolution = world_zoom

\* C3: a Paint whose id is not the registered pipeline id, or that arrives
\* while none is registered, changes no compositor state, sends nothing and
\* does not fail, with or without a quadtree.
C3_ForeignPaintChangesNothing ==
    [][(/\ last'.kind = "Paint"
        /\ (pipeline_id = None \/ last'.param[1] # Get(pipeline_id)))
       => /\ UNCHANGED <<page_size, quadtree, children, local_zoom,
                         root_transform, recomposite, world_offset, world_zoom,
                         window_size, render_chan, pipeline_id, layout_chan,
                         done, zoom_action>>
          /\ sent' = <<>>
          /\ pc' = pc]_vars

\* A foreign Paint was handled with a pipeline registered, tiles cached and
\* layers in the scene.
C3_Witness ==
    /\ ForeignPaint
    /\ pipeline_id # None
    /\ quadtree # None
    /\ children # <<>>
    /\ pc = "drain"

\* C4: between two consecutive viewport changes at most one ReRender message
\* is sent.
C4_OneReRenderPerViewportChange == rerenders <= 1

\* C5 as stated: after the dispatcher processes any Paint, local_zoom is 1.
C5_AfterAnyPaint == last.kind = "Paint" => local_zoom = R(1)

\* C5, amended: after the dispatcher processes an accepted Paint (its id is
\* the registered pipeline id and a quadtree exists), local_zoom is 1.
C5_AfterAcceptedPaint == AcceptedPaint => local_zoom = R(1)

\* An accepted Paint was handled after a zoom had changed world_zoom.
C5_Witness == AcceptedPaint /\ world_zoom # R(1)

\* C6: after the reconciliation of an accepted Paint the root layer has as
\* many children as get_all_tiles() returns tiles, whatever the child count
\* was before.
C6_ChildPerTile ==
    AcceptedPaint => Len(children) = Len(get_all_tiles(Get(quadtree)))

\* An accepted Paint found more children than there are tiles, and tiles
\* remain.
C6_Witness ==
    /\ AcceptedPaint
    /\ last.param[3] > Len(children)
    /\ Len(children) > 0

C8_TimerAskAfterQuiet ==
    /\ last.tiles_ask = "Timer" => (since_zoom > ZoomSettle /\ ~zoom_action)
    /\ timer_asks <= 1
    /\ (zoom_action => (since_zoom >= 0 /\ timer_asks = 0))

\* The timer-driven ask_for_tiles fired and found a quadtree.
C8_Witness == last.tiles_ask = "Timer" /\ pc = "test"

\* C9: once zoom events have stopped, a loop that keeps running reaches the
\* zoom-settled check that clears zoom_action and calls ask_for_tiles, whose
\* request carries the current world_zoom; the zoom handler sends nothing.
C9_ZoomSettles ==
    /\ zoom_action ~> (~zoom_action \/ pc \in Ended)
    /\ [][(zoom_action /\ ~zoom_action')
          => /\ last'.tiles_ask = "Timer"
             /\ \A i \in 1..Len(sent') :
                    /\ MsgKind(sent'[i]) = "ReRenderMsg"
                    /\ MsgPayload(sent'[i])[2] = world_zoom']_vars
    /\ [](last.kind = "Zoom" => (sent = <<>> /\ zoom_action))

\* The zoom-settled check sent a request at a zoom other than 1.
C9_Witness ==
    /\ last.tiles_ask = "Timer"
    /\ sent # <<>>
    /\ MsgPayload(sent[1])[2] = world_zoom
    /\ world_zoom # R(1)

\* What ask_for_tiles is to send in the current state.
ExpectedRequest ==
    LET req == tile_request(Get(quadtree))
    IN IF req.missing # <<>> /\ render_chan # None
       THEN <<ReRenderMsg(Get(render_chan), req.missing, world_zoom)>>
       ELSE <<>>

RenderSent == SelectSeq(sent, LAMBDA m : MsgChan(m) = "render")

\* C10: ask_for_tiles with a quadtree sends exactly one
\* ReRender(missing, world_zoom) when missing is non-empty and a render
\* channel is registered, and otherwise sends nothing, changes no viewport
\* state and does not fail.
C10_AskForTiles ==
    /\ []((last.tiles_ask # "none" /\ quadtree # None)
          => (pc # "failed" /\ RenderSent = ExpectedRequest))
    /\ [][(last'.tiles_ask # "none" /\ quadtree' # None)
          => UNCHANGED <<world_offset, world_zoom, local_zoom, window_size,
                         render_chan, recomposite>>]_vars

\* ask_for_tiles ran for a NewLayer before any render channel was registered.
C10_Witness ==
    /\ last.kind = "NewLayer"
    /\ render_chan = None
    /\ tile_request(Get(quadtree)).missing # <<>>
    /\ sent = <<>>
    /\ pc = "drain"

\* The ReRender messages of the last step.
ReRenders == SelectSeq(sent, LAMBDA m : MsgKind(m) = "ReRenderMsg")

\* The origins of the rectangles a ReRender message asks for.
Requested(m) ==
    { <<MsgPayload(m)[1][i].x, MsgPayload(m)[1][i].y>> :
        i \in 1..Len(MsgPayload(m)[1]) }

\* The last step ran ask_for_tiles and found a quadtree.
AskedForTiles == last.tiles_ask # "none" /\ quadtree # None

\* C11: once an accepted Paint has delivered buffers rendered at the current
\* world_zoom, an ask_for_tiles made before world_zoom changes or a NewLayer
\* arrives requests none of the cells of those buffers, and sends nothing
\* when they cover the viewport.
C11_DeliveredCellsNotRequested ==
    AskedForTiles =>
        /\ \A i \in 1..Len(ReRenders) : Requested(ReRenders[i]) \cap fresh = {}
        /\ PageCells(Get(quadtree),
                     Rect(world_offset[1], world_offset[2],
                          window_size[1], window_size[2]),
                     world_zoom) \subseteq fresh
              => ReRenders = <<>>

\* The messages of the last step to the layout channel.
LayoutSent == SelectSeq(sent, LAMBDA m : MsgChan(m) = "layout")

\* C12: handling SetLayoutRenderChans(lc, rc, pid, ack) sends one
\* CompositorAck(pid), and when it is sent rc and pid are registered and the
\* window callbacks are installed, bound to lc: what they send from then on
\* goes to lc.
C12_AckAfterRegistration ==
    /\ [](last.kind = "SetLayoutRenderChans"
          => /\ sent = <<Msg("constellation", last.param[3], "CompositorAck",
                             last.param[3])>>
             /\ render_chan = Some(last.param[2])
             /\ pipeline_id = Some(last.param[3])
             /\ layout_chan = Some(last.param[1]))
    /\ []((last.kind \in {"Navigate", "LoadUrl", "Mouse"} /\ pc # "failed")
          => Len(LayoutSent) = 1)
    /\ [](\A i \in 1..Len(LayoutSent) :
              layout_chan # None /\ LayoutSent[i][3] = Get(layout_chan))
    /\ [][layout_chan' # layout_chan => last'.kind = "SetLayoutRenderChans"]_vars

\* SetLayoutRenderChans was handled after a NewLayer.
C12_Witness ==
    /\ last.kind = "SetLayoutRenderChans"
    /\ quadtree # None
    /\ pipeline_id = Some(7)

\* C13: world_zoom is at least 1 in every reachable state, whatever the
\* magnifications of the zoom events (below 1, zero or negative), and so is
\* the zoom every ReRender message carries.
C13_WorldZoomAtLeastOne ==
    /\ RLe(R(1), world_zoom)
    /\ \A i \in 1..Len(ReRenders) : RLe(R(1), MsgPayload(ReRenders[i])[2])

\* A zoom event with a magnification of zero or less was handled after a
\* Paint that followed a zoom in.
C13_Witness ==
    /\ last.kind = "Zoom"
    /\ RLe(last.param, R(0))
    /\ world_zoom = R(1)
    /\ RLt(local_zoom, R(1))

\* C14: in every reachable state, also after a Resize, a NewLayer, a
\* ResizeLayer or an accepted Paint, world_offset is integral and lies in
\* [0, max(0, page_size * world_zoom - window_size)] on both axes; the upper
\* bound is taken rounded, as the scroll and zoom handlers round it.
C14_OffsetWithinBoundsAlways ==
    \A i \in 1..2 :
        /\ world_offset[i] \in Int
        /\ 0 <= world_offset[i]
        /\ world_offset[i] <= RRound(MaxOffset(i))

\* The offset the claim gives for one axis of a zoom to new_zoom.
C15_Offset(i, new_zoom) ==
    LET ctr == RAdd(R(world_offset[i]), RDiv(R(window_size[i]), R(2)))
        moved == RSub(RAdd(R(world_offset[i]),
                           RDiv(RMul(ctr, new_zoom), world_zoom)), ctr)
        bound == RMax(R(0), RSub(RMul(R(page_size[i]), new_zoom),
                                 R(window_size[i])))
    IN RRound(RClamp(moved, R(0), bound))

\* C15: a zoom event with magnification m sets world_zoom to
\* max(1, world_zoom * m), local_zoom to local_zoom * world_zoom' / world_zoom
\* and world_offset, per axis, to the rounded clamp of the offset moved about
\* the window's centre; it sets zoom_action and recomposite and leaves
\* page_size, window_size, the quadtree and the children alone.
C15_ZoomUpdate ==
    [][last'.kind = "Zoom"
       => LET m == last'.param
              new_zoom == RMax(R(1), RMul(world_zoom, m))
          IN /\ world_zoom' = new_zoom
             /\ local_zoom' = RDiv(RMul(local_zoom, new_zoom), world_zoom)
             /\ world_offset' = <<C15_Offset(1, new_zoom), C15_Offset(2, new_zoom)>>
             /\ zoom_action'
             /\ recomposite'
             /\ UNCHANGED <<page_size, window_size, quadtree, children>>]_vars

\* A second zoom in was handled, away from the page's corner.
C15_Witness ==
    /\ last.kind = "Zoom"
    /\ world_zoom = <<9, 4>>
    /\ world_offset[1] > 0
    /\ quadtree # None

\* C16: a ReRender is sent only by the ask_for_tiles of a NewLayer, of a
\* mouse-up event or of the zoom-settled check; a scroll or zoom event sends
\* none, and a scroll event leaves world_zoom, local_zoom, page_size,
\* window_size, zoom_action and the quadtree alone and sets recomposite.
C16_ReRenderOnlyFromAskForTiles ==
    /\ [](ReRenders # <<>>
          => \/ last.kind = "NewLayer"
             \/ last.kind = "Mouse" /\ last.param = <<"MouseUpEvent">>
             \/ last.kind = "ZoomCheck" /\ last.tiles_ask = "Timer")
    /\ [](last.kind \in {"Scroll", "Zoom"} => ReRenders = <<>>)
    /\ [][last'.kind = "Scroll"
          => /\ UNCHANGED <<world_zoom, local_zoom, page_size, window_size,
                            zoom_action, quadtree>>
             /\ recomposite']_vars

\* A scroll moved the viewport over cells that are missing, with a render
\* channel registered.
C16_Witness ==
    /\ last.kind = "Scroll"
    /\ world_offset # <<0, 0>>
    /\ quadtree # None
    /\ render_chan # None
    /\ tile_request(Get(quadtree)).missing # <<>>
    /\ recomposite

\* C17: a resize callback delivered after SetLayoutRenderChans sends a
\* ResizeEvent if and only if the reported size differs from window_size;
\* then window_size becomes the reported size and exactly one
\* ResizeEvent(w, h) goes to layout; a report equal to window_size sends
\* nothing and changes no state of the compositor.
C17_ResizeDeduplicated ==
    [][(last'.kind = "Resize" /\ layout_chan # None)
       => /\ UNCHANGED <<pc, done, recomposite, world_offset, page_size,
                         world_zoom, local_zoom, render_chan, pipeline_id,
                         layout_chan, quadtree, zoom_action, zoom_age,
                         children, root_transform, shutdowns>>
          /\ IF last'.param # window_size
             THEN /\ window_size' = last'.param
                  /\ sent' = <<Msg("layout", Get(layout_chan), "SendEventMsg",
                                   <<"ResizeEvent", last'.param>>)>>
             ELSE /\ window_size' = window_size
                  /\ sent' = <<>>]_vars

\* A report equal to window_size was dropped after an earlier report had
\* changed window_size, all after SetLayoutRenderChans.
C17_Witness ==
    /\ last.kind = "Resize"
    /\ layout_chan # None
    /\ last.param = window_size
    /\ window_size # InitialWindow
    /\ sent = <<>>

\* The largest offset on axis i that a clamp against the window size last
\* reported by the windowing system allows at zoom `zoom`.
C18_ReportedBound(i, zoom) ==
    RRound(RMax(RSub(RMul(R(page_size[i]), zoom), R(window_actual[i])), R(0)))

\* C18: every scroll or zoom handler clamps world_offset with the current
\* page_size and the window size most recently reported by the windowing
\* system, whether or not the report came before SetLayoutRenderChans: a
\* scroll yields the clamp of (world_offset - delta) against that window, and
\* a zoom yields an offset within that window's bound at the new zoom.
C18_ClampUsesReportedWindow ==
    /\ [][last'.kind = "Scroll"
          => \A i \in 1..2 :
                world_offset'[i] =
                    ClampOffset(RSub(R(world_offset[i]), R(last'.param[i])),
                                page_size[i], world_zoom, window_actual[i])]_vars
    /\ [][last'.kind = "Zoom"
          => \A i \in 1..2 :
                /\ 0 <= world_offset'[i]
                /\ world_offset'[i] <= C18_ReportedBound(i, world_zoom')]_vars

\* C19: a Paint carrying the registered pipeline id, handled while no
\* quadtree exists, ends the task with a failure and leaves page_size, the
\* scene and every flag as they were; the failed task takes no further step.
C19_PaintWithoutQuadtreeFails ==
    /\ [][(/\ last'.kind = "Paint"
           /\ pipeline_id # None
           /\ last'.param[1] = Get(pipeline_id)
           /\ quadtree = None)
          => /\ pc' = "failed"
             /\ sent' = <<>>
             /\ UNCHANGED <<page_size, children, root_transform, quadtree,
                            recomposite, done, zoom_action, local_zoom,
                            world_zoom, world_offset, window_size,
                            shutdowns>>]_vars
    /\ [][pc # "failed"]_vars

\* The task failed on a Paint of the registered pipeline.
C19_Witness ==
    /\ pc = "failed"
    /\ last.kind = "Paint"
    /\ last.param[1] = Get(pipeline_id)
    /\ quadtree = None

\* The size carried by the reply of the last step.
C20_Reply == MsgPayload(sent[1])

\* C20: the size sent in reply to GetSize is window_size as it is when the
\* message is handled, whatever window resizes and SetLayoutRenderChans
\* came before.
C20_GetSizeRepliesWindowSize ==
    last.kind = "GetSize" => (Len(sent) = 1 /\ C20_Reply = window_size)

\* C21: ask_for_tiles is never invoked while no quadtree exists: whenever a
\* step called it (for NewLayer, for a mouse-up event or for the zoom-settled
\* check) the quadtree was there, and the task never fails in it.
C21_AskForTilesHasQuadtree ==
    last.tiles_ask # "none" => (quadtree # None /\ pc # "failed")

\* The last step ran composite(): the scene was rendered and presented.
Composited == last.kind = "Composite" /\ sent # <<>>

\* The loop structure around the recomposite flag: the flag is false at the
\* start of every iteration and when the loop exits, the composite point of
\* an iteration composites exactly when the flag is set and clears it, and
\* nothing else presents.
C22_FlagClearedEachIteration ==
    /\ [](pc \in {"test", "sleep", "settle", "exited"} => ~recomposite)
    /\ [][last'.kind = "Composite"
          => /\ (sent' # <<>>) <=> recomposite
             /\ ~recomposite']_vars
    /\ [][(\E i \in 1..Len(sent') : MsgChan(sent'[i]) = "window")
          => (pc = "composite" /\ last'.kind = "Composite" /\ Len(sent') = 1)]_vars

\* C22: the recomposite flag is false at the start of every iteration and
\* when the loop exits; every accepted Paint, scroll or zoom that sets the
\* flag is followed by one composite in the same iteration (the iteration of
\* Exit included), and no composite runs when the flag was not set.
C22_RecompositeServed ==
    /\ C22_FlagClearedEachIteration
    /\ (recomposite ~> Composited)

\* C23: in every reachable state local_zoom is world_zoom divided by the
\* value world_zoom had when the most recent Paint was accepted, or by 1 if
\* no Paint has been accepted yet, in exact arithmetic.
C23_LocalZoomIsRatio == local_zoom = RDiv(world_zoom, paint_zoom)

\* A zoom event followed a Paint that was accepted at a world_zoom other
\* than 1, and moved world_zoom away from it.
C23_Witness ==
    /\ last.kind = "Zoom"
    /\ paint_zoom # R(1)
    /\ world_zoom # paint_zoom
    /\ local_zoom # R(1)
    /\ local_zoom # world_zoom

\* The last step called ask_for_tiles, which found nothing missing in the
\* viewport and stale tiles to redisplay.
RedisplayOnly ==
    /\ AskedForTiles
    /\ tile_request(Get(quadtree)).missing = <<>>
    /\ tile_request(Get(quadtree)).redisplay

\* C24: when ask_for_tiles finds an empty missing list and redisplay = true,
\* it sets recomposite to true and sends no request to the render channel.
C24_RedisplaySetsRecomposite ==
    RedisplayOnly => (recomposite /\ ReRenders = <<>>)

====
